---- MODULE Spec2Model ----
(***************************************************************************)
(* Feature discovery engine of compass: the bottom-up strategy             *)
(* (ForwardsFeatureAgent, src/compass/agents/forwards_feature_agent.py).   *)
(*                                                                         *)
(* One run of ForwardsFeatureAgent._call is modelled as a state machine.   *)
(* Every call of the language model (the oracle) is one step: the answer   *)
(* text is the input of the step.  Texts are sequences of one-character    *)
(* strings, so that strip / lower / split / int are modelled by what they  *)
(* do.  The outcomes of the library calls that depend on the embedding     *)
(* vectors (the labels of AgglomerativeClustering, the nearest centroid)   *)
(* are nondeterministic choices over the outcomes the library can return.  *)
(***************************************************************************)
EXTENDS Integers, Sequences, FiniteSets, TLC

(***************************************************************************)
(* Bounds of the model and constants of the program.                       *)
(***************************************************************************)
MaxDocs == 3                \* corpus sizes 0..MaxDocs
MaxMinClusterSize == 2      \* min_cluster_size is configured in 1..MaxMinClusterSize
MaxSplits == 1              \* the oracle asks for a split at most MaxSplits times a run

max_iterations == 5         \* _call: max_iterations = 5
MaxInitialClusters == 8     \* _initial_clustering: min(8, len(docs))

(***************************************************************************)
(* Texts.                                                                  *)
(***************************************************************************)
Whitespace == {" ", "\n", "\t", "\r"}

Digits == <<"0", "1", "2", "3", "4", "5", "6", "7", "8", "9">>

DigitSet == {Digits[k] : k \in 1..10}

DigitValue(c) == (CHOOSE k \in 1..10 : Digits[k] = c) - 1

Uppercase == <<"A", "B", "C", "D", "E", "F", "G", "H", "I", "J", "K", "L", "M",
               "N", "O", "P", "Q", "R", "S", "T", "U", "V", "W", "X", "Y", "Z">>

Lowercase == <<"a", "b", "c", "d", "e", "f", "g", "h", "i", "j", "k", "l", "m",
               "n", "o", "p", "q", "r", "s", "t", "u", "v", "w", "x", "y", "z">>

LowerChar(c) ==
    IF \E k \in 1..26 : Uppercase[k] = c
    THEN Lowercase[CHOOSE k \in 1..26 : Uppercase[k] = c]
    ELSE c

\* str.lower()
Lower(s) == [k \in 1..Len(s) |-> LowerChar(s[k])]

RECURSIVE LStripChars(_, _)
LStripChars(s, chars) ==
    IF s # <<>> /\ Head(s) \in chars THEN LStripChars(Tail(s), chars) ELSE s

RECURSIVE RStripChars(_, _)
RStripChars(s, chars) ==
    IF s # <<>> /\ s[Len(s)] \in chars
    THEN RStripChars(SubSeq(s, 1, Len(s) - 1), chars)
    ELSE s

\* str.strip(chars)
StripChars(s, chars) == RStripChars(LStripChars(s, chars), chars)

\* str.strip()
Strip(s) == StripChars(s, Whitespace)

\* str.startswith(prefix)
StartsWith(s, prefix) ==
    Len(s) >= Len(prefix) /\ SubSeq(s, 1, Len(prefix)) = prefix

\* str.split(): the maximal runs of non-whitespace characters, in order
RECURSIVE SplitWs(_)
SplitWs(s) ==
    LET t == LStripChars(s, Whitespace)
        RECURSIVE WordLen(_)
        WordLen(u) == IF u = <<>> \/ Head(u) \in Whitespace THEN 0
                      ELSE 1 + WordLen(Tail(u))
    IN  IF t = <<>> THEN <<>>
        ELSE <<SubSeq(t, 1, WordLen(t))>> \o SplitWs(SubSeq(t, WordLen(t) + 1, Len(t)))

\* str.split("\n")[0]
FirstLine(s) ==
    IF \E k \in 1..Len(s) : s[k] = "\n"
    THEN SubSeq(s, 1, (CHOOSE k \in 1..Len(s) :
                          s[k] = "\n" /\ \A m \in 1..(k - 1) : s[m] # "\n") - 1)
    ELSE s

\* int(token) succeeds: an optional sign and at least one decimal digit
IsIntLiteral(tok) ==
    LET body == IF tok # <<>> /\ Head(tok) \in {"+", "-"} THEN Tail(tok) ELSE tok
    IN  body # <<>> /\ \A k \in 1..Len(body) : body[k] \in DigitSet

RECURSIVE DigitsValue(_)
DigitsValue(ds) ==
    IF ds = <<>> THEN 0
    ELSE 10 * DigitsValue(SubSeq(ds, 1, Len(ds) - 1)) + DigitValue(ds[Len(ds)])

\* int(token), for a token int() accepts
IntValue(tok) ==
    IF Head(tok) = "-" THEN 0 - DigitsValue(Tail(tok))
    ELSE IF Head(tok) = "+" THEN DigitsValue(Tail(tok))
    ELSE DigitsValue(tok)

\* str(n) for n >= 0
RECURSIVE IntText(_)
IntText(n) ==
    IF n < 10 THEN <<Digits[n + 1]>>
    ELSE IntText(n \div 10) \o <<Digits[(n % 10) + 1]>>

(***************************************************************************)
(* Parsing of the oracle's answers.  Optional[int] is <<>> (None) or <<n>>.*)
(***************************************************************************)
None == <<>>

T_yes == <<"y", "e", "s">>

T_split_into == <<"s", "p", "l", "i", "t", " ", "i", "n", "t", "o">>

\* the test of the answer negated
llm_says_merge_negated(content) == ~StartsWith(Lower(Strip(content)), T_yes)

\* _llm_says_merge: resp = content.strip(); resp.lower().startswith("yes")
llm_says_merge(content) == StartsWith(Lower(Strip(content)), T_yes)

\* _llm_says_split: resp = content.strip().lower(); "split into" prefix, then
\* int() of the third whitespace-separated part, None when it fails
llm_says_split(content) ==
    LET resp == Lower(Strip(content))
        parts == SplitWs(resp)
    IN  IF StartsWith(resp, T_split_into)
        THEN IF Len(parts) >= 3
             THEN IF IsIntLiteral(parts[3]) THEN <<IntValue(parts[3])>> ELSE None
             ELSE None
        ELSE None

\* _attempt_splits: "if split_into and split_into > 1"
SplitRequested(split_into) ==
    split_into # None /\ split_into[1] # 0 /\ split_into[1] > 1

\* _final_naming: response.content.strip().split("\n")[0].strip(" -:*")
feature_name_of(content) == StripChars(FirstLine(Strip(content)), {" ", "-", ":", "*"})

T_doc_ == <<"d", "o", "c", "_">>

(***************************************************************************)
(* Python dicts keep insertion order: a dict is a sequence of entries      *)
(* [name, members].  A cluster key "Cluster_<l>" is <<l>> and the key      *)
(* "<cname>_sub<k>" is cname \o <<k>>: the text of a key determines this   *)
(* sequence and the sequence determines the text.                          *)
(***************************************************************************)
Range(s) == {s[k] : k \in 1..Len(s)}

Keys(d) == [k \in 1..Len(d) |-> d[k].name]

HasKey(d, name) == \E k \in 1..Len(d) : d[k].name = name

Get(d, name) == d[CHOOSE k \in 1..Len(d) : d[k].name = name].members

\* d[name] = members: in place for a key of d, a new last entry otherwise
Put(d, name, members) ==
    IF HasKey(d, name)
    THEN [k \in 1..Len(d) |-> IF d[k].name = name
                              THEN [name |-> name, members |-> members] ELSE d[k]]
    ELSE Append(d, [name |-> name, members |-> members])

\* d.pop(name, None)
Pop(d, name) == SelectSeq(d, LAMBDA e : e.name # name)

\* d[name].extend(more)
Extend(d, name, more) ==
    [k \in 1..Len(d) |-> IF d[k].name = name
                         THEN [name |-> name, members |-> d[k].members \o more]
                         ELSE d[k]]

RemoveAt(s, k) == SubSeq(s, 1, k - 1) \o SubSeq(s, k + 1, Len(s))

Min(a, b) == IF a < b THEN a ELSE b

(***************************************************************************)
(* AgglomerativeClustering(n_clusters = k).fit_predict on n samples.       *)
(* It raises ValueError for fewer than 2 samples and for k > n; otherwise  *)
(* it returns labels 0..k-1, each used at least once.  Which sample gets   *)
(* which label depends on the embeddings: every such labelling is an       *)
(* outcome.                                                                *)
(***************************************************************************)
ClusteringRaises(n, k) == n < 2 \/ k > n \/ k < 1

Labellings(n, k) ==
    {f \in [1..n -> 0..(k - 1)] : \A l \in 0..(k - 1) : \E x \in 1..n : f[x] = l}

FirstUse(f, n, l) == CHOOSE x \in 1..n : f[x] = l /\ \A y \in 1..(x - 1) : f[y] # l

\* labellings that may leave a label without a sample
fit_predict_leaving_labels_out(n, k) == [1..n -> 0..(k - 1)]

\* the labellings the model considers: the labels are first used in increasing
\* order along the samples
fit_predict(n, k) ==
    {f \in Labellings(n, k) :
        \A l \in 1..(k - 1) : FirstUse(f, n, l) > FirstUse(f, n, l - 1)}

\* _initial_clustering, lines 305-312
RECURSIVE cluster_dict_of(_, _, _)
cluster_dict_of(labels, n, upto) ==
    IF upto = 0 THEN <<>>
    ELSE LET d == cluster_dict_of(labels, n, upto - 1)
             key == <<labels[upto]>>
         IN  IF HasKey(d, key) THEN Extend(d, key, <<upto - 1>>)
             ELSE Put(d, key, <<upto - 1>>)

(***************************************************************************)
(* _attempt_merges: the loop position after the body of the inner loop.    *)
(***************************************************************************)
RECURSIVE MergeScan(_, _, _, _)
MergeScan(ii, jj, merged, n) ==
    IF jj < n
    THEN [i |-> ii, j |-> jj, merged_any |-> merged, done |-> FALSE]
    ELSE LET i2 == IF merged THEN ii ELSE ii + 1
         IN  IF i2 < n THEN MergeScan(i2, i2 + 1, FALSE, n)
             ELSE [i |-> i2, j |-> jj, merged_any |-> merged, done |-> TRUE]

\* the absorbed cluster is not removed
MergeClusters_without_pop(d, cA, cB) == Extend(d, cA, Get(d, cB))

\* cluster_dict[cA].extend(cluster_dict[cB]); cluster_dict.pop(cB)
MergeClusters(d, cA, cB) == Pop(Extend(d, cA, Get(d, cB)), cB)

(***************************************************************************)
(* _attempt_splits: the sub-clusters of one cluster.                       *)
(***************************************************************************)
SubMembers(doc_indices, sub_labels, sub_id) ==
    LET RECURSIVE Pick(_)
        Pick(k) == IF k = 0 THEN <<>>
                   ELSE IF sub_labels[k] = sub_id
                        THEN Append(Pick(k - 1), doc_indices[k])
                        ELSE Pick(k - 1)
    IN  Pick(Len(doc_indices))

\* a sub-cluster named by its label alone
sub_name_without_parent(cname, sub_id) == <<sub_id>>

\* f"{cname}_sub{sub_id+1}"
sub_name(cname, sub_id) == cname \o <<sub_id + 1>>

RECURSIVE PutSubClusters(_, _, _, _, _)
PutSubClusters(d, cname, doc_indices, sub_labels, upto) ==
    IF upto = 0 THEN d
    ELSE Put(PutSubClusters(d, cname, doc_indices, sub_labels, upto - 1),
             sub_name(cname, upto - 1),
             SubMembers(doc_indices, sub_labels, upto - 1))

\* _attempt_splits, lines 441-445
SplitCluster(d, cname, sub_labels, split_into) ==
    Pop(PutSubClusters(d, cname, Get(d, cname), sub_labels, split_into), cname)

(***************************************************************************)
(* _enforce_min_cluster_size.  The nearest centroid depends on the         *)
(* embeddings: every other cluster still in the dict can be the target.    *)
(* The result is the set of dicts the pass can return.                     *)
(***************************************************************************)
MergeTargets(d, cluster_names, cname) ==
    {other \in Range(cluster_names) : other # cname /\ HasKey(d, other)}

\* the undersized cluster is left where it is
AbsorbInto_nothing(d, best_target, cname) == d

\* cluster_dict[best_target].extend(cluster_dict[cname]); cluster_dict.pop(cname)
AbsorbInto(d, best_target, cname) == Pop(Extend(d, best_target, Get(d, cname)), cname)

\* the size test off by one
IsTooSmall_off_by_one(members, min_size) == Len(members) < min_size - 1

\* len(cluster_dict[cname]) < self.min_cluster_size
IsTooSmall(members, min_size) == Len(members) < min_size

RECURSIVE EnforceFrom(_, _, _, _)
EnforceFrom(d, cluster_names, pos, min_size) ==
    IF pos > Len(cluster_names) THEN {d}
    ELSE LET cname == cluster_names[pos]
         IN  IF ~HasKey(d, cname)
             THEN EnforceFrom(d, cluster_names, pos + 1, min_size)
             ELSE IF IsTooSmall(Get(d, cname), min_size)
                     /\ MergeTargets(d, cluster_names, cname) # {}
                  THEN UNION {EnforceFrom(AbsorbInto(d, best_target, cname),
                                          cluster_names, pos + 1, min_size) :
                              best_target \in MergeTargets(d, cluster_names, cname)}
                  ELSE EnforceFrom(d, cluster_names, pos + 1, min_size)

enforce_min_cluster_size(d, min_size) == EnforceFrom(d, Keys(d), 1, min_size)

(***************************************************************************)
(* _call: the stability test of a round, lines 621-626.                    *)
(***************************************************************************)
MemberSet(members) == Range(members)

IsStable(new, old) ==
    /\ Range(Keys(new)) = Range(Keys(old))
    /\ \A k \in 1..Len(new) :
           MemberSet(new[k].members) =
               MemberSet(IF HasKey(old, new[k].name) THEN Get(old, new[k].name) ELSE <<>>)

(***************************************************************************)
(* _final_naming and the identifiers of _call, lines 639-649.  An entry of *)
(* final_dict holds the list object of the first cluster that got its      *)
(* name (alias): extending the entry extends that cluster's list too.      *)
(***************************************************************************)
HasFeature(fd, name) == \E k \in 1..Len(fd) : fd[k].name = name

\* a name met again replaces the members instead of extending them
AddToFeature_overwriting(fd, name, cname, dindices) ==
    IF HasFeature(fd, name)
    THEN [k \in 1..Len(fd) |-> IF fd[k].name = name
                               THEN [name |-> name, members |-> dindices, alias |-> cname]
                               ELSE fd[k]]
    ELSE Append(fd, [name |-> name, members |-> dindices, alias |-> cname])

\* _final_naming, lines 580-583
AddToFeature(fd, name, cname, dindices) ==
    IF HasFeature(fd, name)
    THEN [k \in 1..Len(fd) |-> IF fd[k].name = name
                               THEN [name |-> name, members |-> fd[k].members \o dindices,
                                     alias |-> fd[k].alias]
                               ELSE fd[k]]
    ELSE Append(fd, [name |-> name, members |-> dindices, alias |-> cname])

AliasOf(fd, name) == fd[CHOOSE k \in 1..Len(fd) : fd[k].name = name].alias

doc_identifier(ds, idx) ==
    IF ds[idx + 1].method_name # <<>> THEN ds[idx + 1].method_name
    ELSE IF ds[idx + 1].file_path # <<>> THEN ds[idx + 1].file_path
    ELSE T_doc_ \o IntText(idx)

build_feature_dict(fd, ds) ==
    [k \in 1..Len(fd) |->
        [name |-> fd[k].name,
         items |-> [m \in 1..Len(fd[k].members) |-> doc_identifier(ds, fd[k].members[m])]]]

(***************************************************************************)
(* The inputs of a run: the corpus, the configuration, the oracle's texts. *)
(***************************************************************************)
T_m == <<"m">>

T_f == <<"f">>

\* the metadata of a method summary, of a file summary, and of a document
\* that carries neither a method name nor a file path
DocKinds == <<[method_name |-> T_m, file_path |-> T_f],
              [method_name |-> <<>>, file_path |-> T_f],
              [method_name |-> <<>>, file_path |-> <<>>]>>

\* the corpora of n documents the model considers: the three kinds in turn
Corpora(n) == {[k \in 1..n |-> DocKinds[((k - 1) % 3) + 1]]}

T_No == <<"N", "o">>

T_No_split_needed == <<"N", "o", " ", "s", "p", "l", "i", "t", " ", "n", "e", "e", "d", "e", "d">>

\* the answers of the oracle in a run
MergeResponses ==
    {<<"Y", "e", "s">>,
     T_No}

SplitResponses ==
    {T_No_split_needed,
     <<"S", "p", "l", "i", "t", " ", "i", "n", "t", "o", " ", "2">>,
     <<"s", "p", "l", "i", "t", " ", "i", "n", "t", "o", " ", "3">>}

NameResponses ==
    {<<"U", "I">>,
     <<"-", " ", "D", "B">>,
     <<>>}

\* the texts of an oracle that gives the same answer to every question: up to
\* MaxPieces pieces in a row
MaxPieces == 4

Pieces ==
    {<<"S", "p", "l", "i", "t", " ", "i", "n", "t", "o">>,
     <<"Y", "e", "s">>,
     <<"N", "o">>,
     <<"x">>,
     <<"2">>,
     <<"-", "3">>,
     <<" ">>,
     <<"\n">>}

RECURSIVE TextsOf(_)
TextsOf(n) ==
    IF n = 0 THEN {<<>>}
    ELSE TextsOf(n - 1) \cup {t \o piece : t \in TextsOf(n - 1), piece \in Pieces}

(***************************************************************************)
(* The state of a run of _call.                                            *)
(***************************************************************************)
VARIABLES
    docs,               \* metadata of the corpus elements (index k-1 at position k)
    min_cluster_size,   \* configuration
    pc,                 \* position of _call
    it,                 \* loop index of the refinement loop
    cluster_dict,       \* _call's cluster_dict (merged in place by _attempt_merges)
    new_dict,           \* _call's new_dict, and the dict handed from pass to pass
    cluster_names, i, j, merged_any,    \* locals of _attempt_merges
    split_names, split_pos,             \* list(new_dict.keys()) and the loop position
    name_pos, final_dict, feature_dict, \* _final_naming and the returned value
    raised,             \* the call that raised, "none" while none did
    last_op,            \* the last operation that acted
    last_resp,          \* the text of the last oracle answer
    n_splits,           \* how many times the oracle has asked for a split
    pass_in,            \* the dict at the start of the round's merge pass
    pass_quiet,         \* since then every answer was "No" / "No split needed"
                        \* and the size normalizer in between changed nothing
    search,             \* the frame of a cluster count computation
    graph,              \* the frame of _build_adjacency_map and the distance weighting
    assign,             \* the frame of the top-down _assign_docs_to_feature
    replay,             \* what two runs in a row on one corpus have shown of the
                        \* oracle and of the clustering, and what the runs asked
    summary,            \* the frame of the top-down _recursive_summarize_docs
    topdown,            \* the frame of the top-down feature merges
    workers             \* the frame of Compass._summarize_methods and its threads

inputVars == <<docs, min_cluster_size>>

mergeVars == <<cluster_names, i, j, merged_any>>

splitVars == <<split_names, split_pos>>

nameVars == <<name_pos, final_dict, feature_dict>>

quietVars == <<pass_in, pass_quiet>>

runVars == <<docs, min_cluster_size, pc, it, cluster_dict, new_dict, cluster_names, i, j,
             merged_any, split_names, split_pos, name_pos, final_dict, feature_dict,
             raised, last_op, last_resp, n_splits, pass_in, pass_quiet>>

\* the frames of the computations outside a run of _call
moreVars == <<summary, topdown, workers>>

sideVars == <<search, graph, assign, replay, moreVars>>

vars == <<runVars, sideVars>>

\* no computation outside the run is in progress, and a step of the run leaves
\* their frames alone
SearchIdle == search = [pc |-> "idle"]

GraphIdle == graph = [pc |-> "idle"]

AssignIdle == assign = [pc |-> "idle"]

\* the first run is about to start, nothing is known of the oracle yet
ReplayIdle ==
    replay = [run |-> 1, asked |-> <<>>, first |-> <<>>, initial |-> <<>>,
              merge_answers |-> {}, split_answers |-> {}, name_answers |-> {},
              sub_outcomes |-> {}, enforce_outcomes |-> {}]

SummaryIdle == summary = [pc |-> "idle"]

TopdownIdle == topdown = [pc |-> "idle"]

WorkersIdle == workers = [pc |-> "idle"]

MoreIdle == SummaryIdle /\ TopdownIdle /\ WorkersIdle

SideIdle == SearchIdle /\ GraphIdle /\ AssignIdle /\ ReplayIdle /\ MoreIdle

Aside == UNCHANGED sideVars

\* no run of _call is in progress
RunIdle ==
    /\ docs = <<>>
    /\ min_cluster_size = 1
    /\ pc = "start"
    /\ it = 0
    /\ cluster_dict = <<>>
    /\ new_dict = <<>>
    /\ cluster_names = <<>>
    /\ i = 0
    /\ j = 0
    /\ merged_any = FALSE
    /\ split_names = <<>>
    /\ split_pos = 0
    /\ name_pos = 0
    /\ final_dict = <<>>
    /\ feature_dict = <<>>
    /\ raised = "none"
    /\ last_op = "none"
    /\ last_resp = <<>>
    /\ n_splits = 0
    /\ pass_in = <<>>
    /\ pass_quiet = FALSE

Init ==
    /\ \E n \in 0..MaxDocs : docs \in Corpora(n)
    /\ min_cluster_size \in 1..MaxMinClusterSize
    /\ pc = "start"
    /\ it = 0
    /\ cluster_dict = <<>>
    /\ new_dict = <<>>
    /\ cluster_names = <<>>
    /\ i = 0
    /\ j = 0
    /\ merged_any = FALSE
    /\ split_names = <<>>
    /\ split_pos = 0
    /\ name_pos = 0
    /\ final_dict = <<>>
    /\ feature_dict = <<>>
    /\ raised = "none"
    /\ last_op = "none"
    /\ last_resp = <<>>
    /\ n_splits = 0
    /\ pass_in = <<>>
    /\ pass_quiet = FALSE
    /\ SideIdle

\* no try/except encloses the call: the exception leaves _call
Abort(call) ==
    /\ pc' = "aborted"
    /\ raised' = call

\* _attempt_merges, lines 361-365: the start of a merge pass over d
EnterMerges(d) ==
    LET names == Keys(d)
        at == IF Len(names) > 0 THEN MergeScan(0, 1, FALSE, Len(names))
              ELSE [i |-> 0, j |-> 0, merged_any |-> FALSE, done |-> TRUE]
    IN  /\ cluster_names' = names
        /\ i' = at.i
        /\ j' = at.j
        /\ merged_any' = at.merged_any
        /\ pc' = IF at.done THEN "merged" ELSE "merge"
        /\ pass_in' = d
        /\ pass_quiet' = TRUE

\* _final_naming, lines 567-570; for no cluster at all, lines 585 and 639-651
EnterNaming(d) ==
    /\ name_pos' = 0
    /\ final_dict' = <<>>
    /\ feature_dict' = <<>>
    /\ pc' = IF Len(d) = 0 THEN "done" ELSE "naming"

\* _call, lines 607-617: the corpus is read and clustered, round 1 starts
\* (labellings: the label arrays fit_predict can return for the embeddings at hand)
InitialClusteringWith(labellings) ==
    /\ pc = "start"
    /\ last_op' = "initial_clustering"
    /\ LET n == Len(docs)
           n_clusters == Min(MaxInitialClusters, n)
       IN  IF ClusteringRaises(n, n_clusters)
           THEN /\ Abort("initial_clustering")
                /\ UNCHANGED <<cluster_dict, mergeVars, quietVars>>
           ELSE /\ \E labels \in labellings :
                       /\ cluster_dict' = cluster_dict_of(labels, n, n)
                       /\ EnterMerges(cluster_dict_of(labels, n, n))
                /\ UNCHANGED raised
    /\ UNCHANGED <<inputVars, it, new_dict, splitVars, nameVars, last_resp, n_splits>>

InitialClustering ==
    InitialClusteringWith(fit_predict(Len(docs), Min(MaxInitialClusters, Len(docs))))

\* _attempt_merges, lines 366-378: one decideMerge question, answered by content
AskMergeOn(content) ==
    /\ pc = "merge"
    /\ last_op' = "attempt_merges"
    /\ last_resp' = content
    /\ LET cA == cluster_names[i + 1]
           cB == cluster_names[j + 1]
           yes == llm_says_merge(content)
           names == IF yes THEN RemoveAt(cluster_names, j + 1) ELSE cluster_names
           d == IF yes THEN MergeClusters(cluster_dict, cA, cB) ELSE cluster_dict
           at == MergeScan(i, IF yes THEN j ELSE j + 1, merged_any \/ yes, Len(names))
           quiet == pass_quiet /\ content = T_No
       IN  /\ cluster_dict' = d
           \* from round 2 on, _call's new_dict is this very dict object
           /\ new_dict' = IF it > 0 THEN d ELSE new_dict
           /\ cluster_names' = names
           /\ i' = at.i
           /\ j' = at.j
           /\ merged_any' = at.merged_any
           /\ pc' = IF at.done THEN "merged" ELSE "merge"
           /\ pass_quiet' = quiet
           /\ pass_in' = pass_in
    /\ UNCHANGED <<inputVars, it, splitVars, nameVars, raised, n_splits>>

AskMerge == \E content \in MergeResponses : AskMergeOn(content)

\* _llm_says_merge, line 410: model.invoke raises or times out
MergeOracleFails ==
    /\ pc = "merge"
    /\ Abort("decideMerge")
    /\ last_op' = "attempt_merges"
    /\ UNCHANGED <<inputVars, it, cluster_dict, new_dict, mergeVars, splitVars, nameVars,
                   last_resp, n_splits, quietVars>>

\* a split pass that visits the clusters of d in an order of its own choosing
EnterSplits_any_order(d) ==
    /\ \E order \in [1..Len(d) -> 1..Len(d)] :
           /\ \A a, b \in 1..Len(d) : a # b => order[a] # order[b]
           /\ split_names' = [k \in 1..Len(d) |-> Keys(d)[order[k]]]
    /\ split_pos' = 0
    /\ pc' = IF Len(d) = 0 THEN "splitted" ELSE "split"

\* _attempt_splits, lines 432-435: the start of a split pass over d
EnterSplits(d) ==
    /\ split_names' = Keys(d)
    /\ split_pos' = 0
    /\ pc' = IF Len(d) = 0 THEN "splitted" ELSE "split"

\* _single_pass_merge_splits, lines 335-337: the size normalizer after the merges
\* (outcomes: the dicts the normalizer can return for the embeddings at hand)
EnforceAfterMergesTo(outcomes) ==
    /\ pc = "merged"
    /\ last_op' = "enforce_min_cluster_size"
    /\ \E d \in outcomes :
           /\ new_dict' = d
           /\ EnterSplits(d)
           /\ pass_quiet' = (pass_quiet /\ d = cluster_dict)
           /\ pass_in' = pass_in
    /\ UNCHANGED <<inputVars, it, cluster_dict, mergeVars, nameVars, raised, last_resp,
                   n_splits>>

EnforceAfterMerges ==
    EnforceAfterMergesTo(enforce_min_cluster_size(cluster_dict, min_cluster_size))

\* _attempt_splits, lines 435-446: one decideSplit question, answered by content;
\* the oracle asks for a split at most cap times a run
AskSplitOnUpTo(content, cap) ==
    /\ pc = "split"
    /\ last_op' = "attempt_splits"
    /\ last_resp' = content
    /\ LET cname == split_names[split_pos + 1]
           doc_indices == Get(new_dict, cname)
           split_into == llm_says_split(content)
           more == split_pos + 1 < Len(split_names)
           quiet == pass_quiet /\ content = T_No_split_needed
       IN  /\ SplitRequested(split_into) => n_splits < cap
           /\ n_splits' = IF SplitRequested(split_into) THEN n_splits + 1 ELSE n_splits
           /\ pass_quiet' = quiet
           /\ pass_in' = pass_in
           /\ IF SplitRequested(split_into)
              THEN IF ClusteringRaises(Len(doc_indices), split_into[1])
                   THEN /\ Abort("subcluster")
                        /\ UNCHANGED <<new_dict, split_pos>>
                   ELSE /\ \E sub_labels \in fit_predict(Len(doc_indices), split_into[1]) :
                              new_dict' = SplitCluster(new_dict, cname, sub_labels,
                                                       split_into[1])
                        /\ split_pos' = split_pos + 1
                        /\ pc' = IF more THEN "split" ELSE "splitted"
                        /\ UNCHANGED raised
              ELSE /\ split_pos' = split_pos + 1
                   /\ pc' = IF more THEN "split" ELSE "splitted"
                   /\ UNCHANGED <<new_dict, raised>>
    /\ UNCHANGED <<inputVars, it, cluster_dict, mergeVars, split_names, nameVars>>

AskSplitOn(content) == AskSplitOnUpTo(content, MaxSplits)

AskSplit == \E content \in SplitResponses : AskSplitOn(content)

\* _llm_says_split, line 463: model.invoke raises or times out
SplitOracleFails ==
    /\ pc = "split"
    /\ Abort("decideSplit")
    /\ last_op' = "attempt_splits"
    /\ UNCHANGED <<inputVars, it, cluster_dict, new_dict, mergeVars, splitVars, nameVars,
                   last_resp, n_splits, quietVars>>

\* _single_pass_merge_splits, lines 339-340, and _call, lines 618-636: the size
\* normalizer after the splits, the stability test, and the next round or the naming
EnforceAfterSplitsTo(outcomes) ==
    /\ pc = "splitted"
    /\ last_op' = "enforce_min_cluster_size"
    /\ \E d \in outcomes :
           /\ new_dict' = d
           /\ cluster_dict' = d
           /\ IF IsStable(d, cluster_dict) \/ it + 1 >= max_iterations
              THEN /\ EnterNaming(d)
                   /\ pass_quiet' = FALSE
                   /\ pass_in' = <<>>
                   /\ UNCHANGED <<it, mergeVars>>
              ELSE /\ it' = it + 1
                   /\ EnterMerges(d)
                   /\ UNCHANGED nameVars
    /\ UNCHANGED <<inputVars, splitVars, raised, last_resp, n_splits>>

EnforceAfterSplits ==
    EnforceAfterSplitsTo(enforce_min_cluster_size(new_dict, min_cluster_size))

\* _final_naming, lines 570-583: one nameCluster question, answered by content; after
\* the last cluster, _call lines 639-651 build the returned feature_dict
AskNameOn(content) ==
    /\ pc = "naming"
    /\ last_op' = "final_naming"
    /\ last_resp' = content
    /\ LET cname == cluster_dict[name_pos + 1].name
           dindices == cluster_dict[name_pos + 1].members
           feature_name == feature_name_of(content)
           fd == AddToFeature(final_dict, feature_name, cname, dindices)
           last == name_pos + 1 >= Len(cluster_dict)
       IN  /\ final_dict' = fd
           /\ cluster_dict' = IF HasFeature(final_dict, feature_name)
                              THEN Extend(cluster_dict,
                                          AliasOf(final_dict, feature_name), dindices)
                              ELSE cluster_dict
           /\ name_pos' = name_pos + 1
           /\ feature_dict' = IF last THEN build_feature_dict(fd, docs) ELSE <<>>
           /\ pc' = IF last THEN "done" ELSE "naming"
    /\ new_dict' = cluster_dict'
    /\ UNCHANGED <<inputVars, it, mergeVars, splitVars, raised, n_splits, quietVars>>

AskName == \E content \in NameResponses : AskNameOn(content)

\* _final_naming, line 577: model.invoke raises or times out
NameOracleFails ==
    /\ pc = "naming"
    /\ Abort("nameCluster")
    /\ last_op' = "final_naming"
    /\ UNCHANGED <<inputVars, it, cluster_dict, new_dict, mergeVars, splitVars, nameVars,
                   last_resp, n_splits, quietVars>>

Next ==
    \/ InitialClustering /\ Aside
    \/ AskMerge /\ Aside
    \/ MergeOracleFails /\ Aside
    \/ EnforceAfterMerges /\ Aside
    \/ AskSplit /\ Aside
    \/ SplitOracleFails /\ Aside
    \/ EnforceAfterSplits /\ Aside
    \/ AskName /\ Aside
    \/ NameOracleFails /\ Aside

Spec == Init /\ [][Next]_vars

(***************************************************************************)
(* Runs under an oracle that gives one and the same text to every          *)
(* question: last_resp holds that text from the start.                     *)
(***************************************************************************)
ParseInit ==
    /\ docs \in Corpora(MaxDocs)
    /\ min_cluster_size = MaxMinClusterSize
    /\ pc = "start"
    /\ it = 0
    /\ cluster_dict = <<>>
    /\ new_dict = <<>>
    /\ cluster_names = <<>>
    /\ i = 0
    /\ j = 0
    /\ merged_any = FALSE
    /\ split_names = <<>>
    /\ split_pos = 0
    /\ name_pos = 0
    /\ final_dict = <<>>
    /\ feature_dict = <<>>
    /\ raised = "none"
    /\ last_op = "none"
    /\ last_resp \in TextsOf(MaxPieces)
    /\ n_splits = 0
    /\ pass_in = <<>>
    /\ pass_quiet = FALSE
    /\ SideIdle

ReplyMerge == AskMergeOn(last_resp)

ReplySplit == AskSplitOn(last_resp)

ReplyName == AskNameOn(last_resp)

ParseNext ==
    \/ InitialClustering /\ Aside
    \/ ReplyMerge /\ Aside
    \/ EnforceAfterMerges /\ Aside
    \/ ReplySplit /\ Aside
    \/ EnforceAfterSplits /\ Aside
    \/ ReplyName /\ Aside

ParseSpec == ParseInit /\ [][ParseNext]_vars

(***************************************************************************)
(* Properties.                                                             *)
(***************************************************************************)
RECURSIVE Flatten(_)
Flatten(d) == IF d = <<>> THEN <<>> ELSE Head(d).members \o Flatten(Tail(d))

Occurrences(seq, x) == Cardinality({k \in 1..Len(seq) : seq[k] = x})

\* every index 0..n-1 is a member of exactly one cluster of d, exactly once
IsPartition(d, n) ==
    /\ Len(Flatten(d)) = n
    /\ \A x \in 0..(n - 1) : Occurrences(Flatten(d), x) = 1

DistinctKeys(d) == \A a, b \in 1..Len(d) : d[a].name = d[b].name => a = b

\* C1: in the bottom-up strategy, after the initial clustering and after every
\* merge pass, size-normalizer pass and split pass (and after each of their
\* steps), every element index 0..N-1 is a member of exactly one cluster, once,
\* whatever the oracle answered.
C1_StrictPartition ==
    (last_op \in {"initial_clustering", "attempt_merges", "enforce_min_cluster_size",
                  "attempt_splits"} /\ raised # "initial_clustering")
    => /\ IsPartition(cluster_dict, Len(docs))
       /\ DistinctKeys(cluster_dict)
       /\ new_dict # <<>> => (IsPartition(new_dict, Len(docs)) /\ DistinctKeys(new_dict))

\* a split pass has ended in which a cluster was split
C1_Witness ==
    pc = "splitted" /\ n_splits >= 1 /\ Len(new_dict) >= 2 /\ Len(cluster_dict) < Len(docs)

RECURSIVE AllItems(_)
AllItems(fd) == IF fd = <<>> THEN <<>> ELSE Head(fd).items \o AllItems(Tail(fd))

C3_RefinementReachesNaming ==
    /\ it < max_iterations
    /\ ~(pc = "aborted" /\ raised = "subcluster")

SameState(a, b) ==
    /\ Range(Keys(a)) = Range(Keys(b))
    /\ \A k \in 1..Len(a) :
           HasKey(b, a[k].name) /\ Range(a[k].members) = Range(Get(b, a[k].name))

\* C5: a merge pass answered "No" throughout returns the state it was given, and
\* so does a split pass that follows it and is answered "No split needed"
\* throughout: the same cluster names and the same member set per name.
C5_DeclinedPassesChangeNothing ==
    /\ (pc = "merged" /\ pass_quiet) => SameState(cluster_dict, pass_in)
    /\ (pc = "splitted" /\ pass_quiet) => SameState(new_dict, pass_in)

\* a merge pass and then a split pass over two or more clusters were declined
C5_Witness ==
    pc = "splitted" /\ pass_quiet /\ Len(new_dict) >= 2

\* C6: when the naming oracle raises or times out for a cluster, the run does
\* not abort: the cluster is entered under a placeholder name.
C6_NamingFailureIsNotFatal ==
    raised = "nameCluster" => pc # "aborted"

\* C7: when a decideMerge or decideSplit call raises or times out, the run does
\* not abort: the pair or cluster is skipped.
C7_DecisionFailureIsNotFatal ==
    raised \in {"decideMerge", "decideSplit"} => pc # "aborted"

T_split == <<"s", "p", "l", "i", "t">>

T_into == <<"i", "n", "t", "o">>

\* an answer of the form "split into X" with an integer X > 1
IsSplitDirective(content) ==
    LET words == SplitWs(Lower(Strip(content)))
    IN  /\ Len(words) >= 3
        /\ words[1] = T_split
        /\ words[2] = T_into
        /\ IsIntLiteral(words[3])
        /\ IntValue(words[3]) > 1

BeginsWithYes(content) == StartsWith(Lower(Strip(content)), T_yes)

\* C8: a decideSplit answer that is not of the form "split into X" with an
\* integer X > 1 leaves the clusters as they are and raises nothing, and so does
\* a decideMerge answer that does not begin with "yes".
C8_MalformedAnswersDecline ==
    [][/\ (pc = "split" /\ last_op' = "attempt_splits" /\ raised' # "decideSplit"
              /\ ~IsSplitDirective(last_resp'))
           => (pc' # "aborted" /\ new_dict' = new_dict)
       /\ (pc = "merge" /\ last_op' = "attempt_merges" /\ raised' # "decideMerge"
              /\ ~BeginsWithYes(last_resp'))
           => (pc' # "aborted" /\ cluster_dict' = cluster_dict)]_vars

\* C9: no feature of the FeatureMap is keyed by the empty text.
C9_NoEmptyFeatureName ==
    /\ \A k \in 1..Len(final_dict) : final_dict[k].name # <<>>
    /\ \A k \in 1..Len(feature_dict) : feature_dict[k].name # <<>>

\* a step of the split pass in which the oracle answered (it did not raise)
IsSplitAnswer == pc = "split" /\ last_op' = "attempt_splits" /\ raised' # "decideSplit"

\* between d and e, cluster cname was replaced by exactly x sub-clusters named
\* after it, non-empty, pairwise disjoint, together holding cname's members,
\* and every other cluster is as it was
ReplacedBySubClusters(d, e, cname, x) ==
    LET subs == {sub_name(cname, sub_id) : sub_id \in 0..(x - 1)}
    IN  /\ ~HasKey(e, cname)
        /\ Len(e) = Len(d) - 1 + x
        /\ DistinctKeys(e)
        /\ \A s \in subs : ~HasKey(d, s) /\ HasKey(e, s) /\ Get(e, s) # <<>>
        /\ \A s, t \in subs : s # t => Range(Get(e, s)) \cap Range(Get(e, t)) = {}
        /\ UNION {Range(Get(e, s)) : s \in subs} = Range(Get(d, cname))
        /\ \A k \in 1..Len(d) :
               d[k].name # cname => (HasKey(e, d[k].name) /\ Get(e, d[k].name) = d[k].members)
        /\ \A k \in 1..Len(e) : HasKey(d, e[k].name) \/ e[k].name \in subs

\* What the split pass does on "split into X", X > 1: for a cluster C of at
\* least X members it removes C and adds X sub-clusters as described above;
\* for X above the size of C the clustering raises and the run ends with the
\* state as it was.
SplitIntoAtMostSize ==
    [][(IsSplitAnswer /\ SplitRequested(llm_says_split(last_resp')))
        => LET cname == split_names[split_pos + 1]
               x == llm_says_split(last_resp')[1]
           IN  IF x <= Len(Get(new_dict, cname))
               THEN pc' # "aborted" /\ ReplacedBySubClusters(new_dict, new_dict', cname, x)
               ELSE pc' = "aborted" /\ raised' = "subcluster" /\ new_dict' = new_dict]_vars

\* C10: for every cluster C and every "split into X" with an integer X > 1,
\* whatever the size of C, the split pass removes C and adds exactly X newly
\* named sub-clusters, non-empty, pairwise disjoint and together holding C's
\* members exactly; all other clusters are unchanged.
C10_SplitIntoAny ==
    [][(IsSplitAnswer /\ SplitRequested(llm_says_split(last_resp')))
        => LET cname == split_names[split_pos + 1]
               x == llm_says_split(last_resp')[1]
           IN  pc' # "aborted" /\ ReplacedBySubClusters(new_dict, new_dict', cname, x)]_vars

\* C11: a run on an empty corpus raises no error and yields an empty
\* FeatureMap: once the run has left its start it is finished, nothing was
\* raised and no feature was emitted.
C11_EmptyCorpusYieldsEmptyMap ==
    (Len(docs) = 0 /\ pc # "start")
        => (pc = "done" /\ raised = "none" /\ feature_dict = <<>>)

(***************************************************************************)
(* The cluster count handed to hierarchical clustering: min(8, N) in the   *)
(* bottom-up agent, the coherence search of _determine_optimal_clusters in *)
(* the basic agent and the retriever, and the retriever's num_features.    *)
(* The coherence score of a count depends on the embeddings: whether a     *)
(* count beats the best one so far is open.                                *)
(***************************************************************************)
MaxSearchDocs == 22

MaxKnown == 4

MaxNumFeatures == 3

MaxAutoClusters == 20

MinAutoClusters == 3

Max(a, b) == IF a > b THEN a ELSE b

\* min(20, len(embedding_matrix) - 1)
max_clusters_of(n_docs) == Min(MaxAutoClusters, n_docs - 1)

\* max(3, len(self.known_features))
min_clusters_of(known) == Max(MinAutoClusters, known)

SearchFrame(site, n_docs, known, num_features) ==
    [pc |-> "start", site |-> site, n_docs |-> n_docs, known |-> known,
     num_features |-> num_features, n |-> 0, optimal_n |-> 0, n_clusters |-> 0]

SearchInit ==
    /\ RunIdle
    /\ GraphIdle
    /\ AssignIdle
    /\ ReplayIdle
    /\ MoreIdle
    /\ \E n_docs \in 2..MaxSearchDocs :
           \/ search = SearchFrame("forwards", n_docs, 0, 0)
           \/ \E known \in 0..MaxKnown : search = SearchFrame("basic", n_docs, known, 0)
           \/ \E known \in 0..MaxKnown, num_features \in 0..MaxNumFeatures :
                  search = SearchFrame("retriever", n_docs, known, num_features)

\* _initial_clustering, lines 305-307
ForwardsCount ==
    /\ search.pc = "start"
    /\ search.site = "forwards"
    /\ LET n_clusters == Min(MaxInitialClusters, search.n_docs)
       IN  search' = [search EXCEPT
                         !.n_clusters = n_clusters,
                         !.pc = IF ClusteringRaises(search.n_docs, n_clusters)
                                THEN "raised" ELSE "clustered"]

\* CompassFeatureRetriever._determine_optimal_clusters: if self.num_features
ExplicitCount ==
    /\ search.pc = "start"
    /\ search.site = "retriever"
    /\ search.num_features # 0
    /\ search' = [search EXCEPT !.optimal_n = search.num_features, !.pc = "chosen"]

\* _determine_optimal_clusters up to the loop: optimal_n = min_clusters
SearchStart ==
    /\ search.pc = "start"
    /\ \/ search.site = "basic"
       \/ search.site = "retriever" /\ search.num_features = 0
    /\ search' = [search EXCEPT !.n = min_clusters_of(search.known),
                                !.optimal_n = min_clusters_of(search.known),
                                !.pc = "loop"]

\* one round of the loop: the corpus is clustered into n clusters and scored
SearchTry ==
    /\ search.pc = "loop"
    /\ search.n <= max_clusters_of(search.n_docs)
    /\ \E improved \in BOOLEAN :
           search' = [search EXCEPT
                         !.n_clusters = search.n,
                         !.optimal_n = IF improved THEN search.n ELSE search.optimal_n,
                         !.n = search.n + 1]

\* the loop is over (or its range was empty): return optimal_n
SearchReturn ==
    /\ search.pc = "loop"
    /\ search.n > max_clusters_of(search.n_docs)
    /\ search' = [search EXCEPT !.pc = "chosen"]

\* _get_compass_features: AgglomerativeClustering(n_clusters = n_clusters)
ClusterWithCount ==
    /\ search.pc = "chosen"
    /\ search' = [search EXCEPT
                     !.n_clusters = search.optimal_n,
                     !.pc = IF ClusteringRaises(search.n_docs, search.optimal_n)
                            THEN "raised" ELSE "clustered"]

SearchNext ==
    \/ ForwardsCount /\ UNCHANGED <<runVars, graph, assign, replay, moreVars>>
    \/ ExplicitCount /\ UNCHANGED <<runVars, graph, assign, replay, moreVars>>
    \/ SearchStart /\ UNCHANGED <<runVars, graph, assign, replay, moreVars>>
    \/ SearchTry /\ UNCHANGED <<runVars, graph, assign, replay, moreVars>>
    \/ SearchReturn /\ UNCHANGED <<runVars, graph, assign, replay, moreVars>>
    \/ ClusterWithCount /\ UNCHANGED <<runVars, graph, assign, replay, moreVars>>

SearchSpec == SearchInit /\ [][SearchNext]_vars

\* C12: for a corpus of N >= 2 elements, every cluster count handed to
\* hierarchical clustering is at most N - 1.
C12_CountBelowCorpusSize ==
    (search.pc # "idle" /\ search.n_docs >= 2 /\ search.n_clusters # 0)
        => search.n_clusters <= search.n_docs - 1

(***************************************************************************)
(* _build_adjacency_map and _adjacency_weighted_distance.  The metadata of *)
(* an element: its summary_level, its method_name, and the comma-separated *)
(* texts "calls" and "inherits_from"; a missing entry reads as None.       *)
(* adjacency maps an index to its inner dict, a set of <<index, tag>>.     *)
(* Distances are kept in hundredths, weights in tenths.                    *)
(***************************************************************************)
MaxGraphDocs == 3

\* str.split(sep)
RECURSIVE SplitOn(_, _)
SplitOn(s, sep) ==
    IF \A k \in 1..Len(s) : s[k] # sep THEN <<s>>
    ELSE LET k == CHOOSE x \in 1..Len(s) : s[x] = sep /\ \A y \in 1..(x - 1) : s[y] # sep
         IN  <<SubSeq(s, 1, k - 1)>> \o SplitOn(SubSeq(s, k + 1, Len(s)), sep)

\* lines 214-219: the last element of a name is the one the name leads to
RECURSIVE method_to_idx_of(_, _)
method_to_idx_of(ds, upto) ==
    IF upto = 0 THEN <<>>
    ELSE LET m == method_to_idx_of(ds, upto - 1)
             doc == ds[upto]
         IN  IF doc.summary_level = "method" /\ doc.method_name # None
             THEN Put(m, doc.method_name, upto - 1)
             ELSE m

\* a name that is no key leads to the index after the last one
dict_get_defaulting(m, name) == IF HasKey(m, name) THEN <<Get(m, name)>> ELSE <<Len(m) + 1>>

\* method_to_idx.get(name): the index, or None
dict_get(m, name) == IF HasKey(m, name) THEN <<Get(m, name)>> ELSE None

\* the truth value of "name and (idx := method_to_idx.get(name))"
Found(name, idx) == name # <<>> /\ idx # None /\ idx[1] # 0

\* adjacency[a][b] = tag
SetEdge(adjacency, a, b, tag) ==
    [adjacency EXCEPT ![a] = {e \in adjacency[a] : e[1] # b} \cup {<<b, tag>>}]

\* lines 228-231 and 235-238: the names of one relation of element i, in turn;
\* ok is FALSE once adjacency[idx] was asked for an idx that is no key
RECURSIVE Relate(_, _, _, _, _, _, _)
Relate(st, m, el, names, upto, tag, back) ==
    IF upto = 0 THEN st
    ELSE LET before == Relate(st, m, el, names, upto - 1, tag, back)
             idx == dict_get(m, names[upto])
         IN  IF ~before.ok \/ ~Found(names[upto], idx) THEN before
             ELSE IF idx[1] \notin DOMAIN before.adjacency
                  THEN [before EXCEPT !.ok = FALSE]
                  ELSE [before EXCEPT !.adjacency =
                            SetEdge(SetEdge(before.adjacency, el, idx[1], tag),
                                    idx[1], el, back)]

\* lines 222-238: the body of the second loop for element el
RelateElement(adjacency, m, ds, el) ==
    LET doc == ds[el + 1]
        st0 == [adjacency |-> adjacency, ok |-> TRUE]
        st1 == IF doc.calls # None
               THEN LET names == SplitOn(doc.calls, ",")
                    IN  Relate(st0, m, el, names, Len(names), "calls", "called_by")
               ELSE st0
        st2 == IF doc.inherits_from # None
               THEN LET names == SplitOn(doc.inherits_from, ",")
                    IN  Relate(st1, m, el, names, Len(names), "inherits", "inherited_by")
               ELSE st1
    IN  IF doc.summary_level # "method" THEN st0 ELSE st2

\* RELATIONSHIP_WEIGHTS, in tenths
RELATIONSHIP_WEIGHTS(rel_type) ==
    CASE rel_type = "inherits" -> 4
      [] rel_type = "inherited_by" -> 5
      [] rel_type = "calls" -> 6
      [] rel_type = "called_by" -> 7

\* a weighting that also shortens the way back, lines 273-275
WeighItem_both_ways(dist_mat, a, b, rel_type) ==
    IF a # b
    THEN [dist_mat EXCEPT ![a][b] = (@ * RELATIONSHIP_WEIGHTS(rel_type)) \div 10,
                          ![b][a] = (@ * RELATIONSHIP_WEIGHTS(rel_type)) \div 10]
    ELSE dist_mat

\* lines 273-275: dist_mat[i, j] *= weight, for i != j
WeighItem(dist_mat, a, b, rel_type) ==
    IF a # b
    THEN [dist_mat EXCEPT ![a][b] = (@ * RELATIONSHIP_WEIGHTS(rel_type)) \div 10]
    ELSE dist_mat

\* line 272: the items of adjacency[a], each once
RECURSIVE WeighItems(_, _, _)
WeighItems(dist_mat, a, items) ==
    IF items = {} THEN dist_mat
    ELSE LET e == CHOOSE x \in items : TRUE
         IN  WeighItems(WeighItem(dist_mat, a, e[1], e[2]), a, items \ {e})

\* line 271: the rows 0..upto-1 in turn
RECURSIVE WeighRows(_, _, _)
WeighRows(dist_mat, adjacency, upto) ==
    IF upto = 0 THEN dist_mat
    ELSE WeighItems(WeighRows(dist_mat, adjacency, upto - 1), upto - 1, adjacency[upto - 1])

\* lines 261-277; dist_mat is a copy of base_dist, kept in hundredths
adjacency_weighted_distance(base_dist, adjacency, n) ==
    WeighRows([a \in 0..(n - 1) |-> [b \in 0..(n - 1) |-> base_dist[a][b] * 10]],
              adjacency, n)

\* the elements the model builds its corpora from: methods a, b and c with
\* their relations (z names no element), a class summary that declares
\* relations, a method summary without a name, a second method a, and a
\* method d that calls itself
GraphKinds ==
    <<[summary_level |-> "method", method_name |-> <<"a">>,
       calls |-> <<"b">>, inherits_from |-> <<>>],
      [summary_level |-> "method", method_name |-> <<"b">>,
       calls |-> <<>>, inherits_from |-> <<"a">>],
      [summary_level |-> "method", method_name |-> <<"c">>,
       calls |-> <<"a", ",", "z">>, inherits_from |-> <<",", "b">>],
      [summary_level |-> "class", method_name |-> <<>>,
       calls |-> <<"a">>, inherits_from |-> <<"b">>],
      [summary_level |-> "method", method_name |-> <<>>,
       calls |-> <<"b", ",", "b">>, inherits_from |-> <<"c">>],
      [summary_level |-> "method", method_name |-> <<"a">>,
       calls |-> <<"c">>, inherits_from |-> <<"b">>],
      [summary_level |-> "method", method_name |-> <<"d">>,
       calls |-> <<"d">>, inherits_from |-> <<>>]>>

GraphCorpora ==
    UNION {[1..n -> {GraphKinds[k] : k \in 1..Len(GraphKinds)}] : n \in 1..MaxGraphDocs}

\* the raw cosine distance of two distinct elements, in tenths
RawDistances == {0, 3, 10}

\* the raw distance of an element to itself, in tenths: 1 - cosine_similarity
\* is zero up to rounding; 1 stands for a rounding residue
SelfDistances == {0, 1}

\* the raw distance matrix: 1 - cosine_similarity(embeddings), lines 300-301
base_dist_of(raw, self, n) ==
    [a \in 0..(n - 1) |-> [b \in 0..(n - 1) |-> IF a = b THEN self ELSE raw]]

GraphInit ==
    /\ RunIdle
    /\ SearchIdle
    /\ AssignIdle
    /\ ReplayIdle
    /\ MoreIdle
    /\ \E ds \in GraphCorpora, raw \in RawDistances, self \in SelfDistances :
           graph = [pc |-> "start", docs |-> ds, raw |-> raw, self |-> self,
                    method_to_idx |-> <<>>, adjacency |-> <<>>, pos |-> 0,
                    base_dist |-> base_dist_of(raw, self, Len(ds)), dist_mat |-> <<>>]

\* _build_adjacency_map, lines 211-219
BuildIndex ==
    /\ graph.pc = "start"
    /\ graph' = [graph EXCEPT
                    !.adjacency = [k \in 0..(Len(graph.docs) - 1) |-> {}],
                    !.method_to_idx = method_to_idx_of(graph.docs, Len(graph.docs)),
                    !.pos = 0,
                    !.pc = "relating"]

\* _build_adjacency_map, lines 222-240: one round of the second loop
RelateStep ==
    /\ graph.pc = "relating"
    /\ LET st == RelateElement(graph.adjacency, graph.method_to_idx, graph.docs, graph.pos)
       IN  graph' = [graph EXCEPT
                        !.adjacency = st.adjacency,
                        !.pos = graph.pos + 1,
                        !.pc = IF ~st.ok THEN "raised"
                               ELSE IF graph.pos + 1 = Len(graph.docs) THEN "built"
                               ELSE "relating"]

\* _initial_clustering, line 303: the weighting of the raw distances
WeightDistances ==
    /\ graph.pc = "built"
    /\ graph' = [graph EXCEPT
                    !.dist_mat = adjacency_weighted_distance(
                                     graph.base_dist, graph.adjacency, Len(graph.docs)),
                    !.pc = "weighted"]

GraphNext ==
    \/ BuildIndex /\ UNCHANGED <<runVars, search, assign, replay, moreVars>>
    \/ RelateStep /\ UNCHANGED <<runVars, search, assign, replay, moreVars>>
    \/ WeightDistances /\ UNCHANGED <<runVars, search, assign, replay, moreVars>>

GraphSpec == GraphInit /\ [][GraphNext]_vars

\* element el is a method summary
IsMethod(el) == graph.docs[el + 1].summary_level = "method"

MethodName(el) == graph.docs[el + 1].method_name

\* the text lists name, a non-empty name
Lists(text, name) ==
    /\ name # <<>>
    /\ text # <<>>
    /\ \E k \in 1..Len(SplitOn(text, ",")) : SplitOn(text, ",")[k] = name

\* method element el declares a call of (a parent in) the named method
DeclaresCall(el, name) == IsMethod(el) /\ Lists(graph.docs[el + 1].calls, name)

DeclaresParent(el, name) == IsMethod(el) /\ Lists(graph.docs[el + 1].inherits_from, name)

\* b is a method element, the only element of its name
NamedOnce(b) ==
    /\ IsMethod(b)
    /\ MethodName(b) # <<>>
    /\ \A k \in 0..(Len(graph.docs) - 1) : k # b => MethodName(k) # MethodName(b)

\* a and b are distinct and a's relation to b is the only one declared between them
OnlyRelation(a, b, isCall) ==
    /\ a # b
    /\ IF isCall THEN ~DeclaresParent(a, MethodName(b)) ELSE ~DeclaresCall(a, MethodName(b))
    /\ ~DeclaresCall(b, MethodName(a))
    /\ ~DeclaresParent(b, MethodName(a))

Elements == 0..(Len(graph.docs) - 1)

\* C13: once the distances are weighted, for distinct elements el and b where
\* method element el declares b (named once in the corpus) as an inheritance
\* parent, the weighted distance of el to b is strictly less than their raw
\* distance, whatever the index of b; stated for raw distances above zero.
C13_InheritsShortensDistance ==
    graph.pc = "weighted" =>
        \A el \in Elements, b \in Elements :
            (el # b /\ NamedOnce(b) /\ DeclaresParent(el, MethodName(b)) /\ graph.raw > 0)
                => graph.dist_mat[el][b] < graph.raw * 10

\* C14: once the map is built, for a method element el that declares a call
\* of (respectively a parent in) the method named by element b, at any index,
\* the map holds el->b tagged calls and b->el tagged called_by (respectively
\* inherits and inherited_by); stated for b named once and no other relation
\* declared between el and b.  Setting an edge that is there changes nothing.
C14_DeclaredRelationsAreEdges ==
    graph.pc \in {"built", "weighted"} =>
        /\ \A el \in Elements, b \in Elements :
               /\ (NamedOnce(b) /\ DeclaresCall(el, MethodName(b)) /\ OnlyRelation(el, b, TRUE))
                      => /\ <<b, "calls">> \in graph.adjacency[el]
                         /\ <<el, "called_by">> \in graph.adjacency[b]
               /\ (NamedOnce(b) /\ DeclaresParent(el, MethodName(b)) /\ OnlyRelation(el, b, FALSE))
                      => /\ <<b, "inherits">> \in graph.adjacency[el]
                         /\ <<el, "inherited_by">> \in graph.adjacency[b]
        /\ \A el \in Elements : \A e \in graph.adjacency[el] :
               SetEdge(graph.adjacency, el, e[1], e[2]) = graph.adjacency

\* C15: building the map raises no error; every key and every neighbour
\* index of the map is an index of the corpus; an entry el->b tagged calls or
\* inherits exists only where method element el declares the method name of
\* b, an entry tagged called_by or inherited_by only where method element b
\* declares the name of el: names of no element and elements that are not
\* method summaries emit no edges.
C15_OnlyKnownTargetsAreLinked ==
    /\ graph.pc # "raised"
    /\ graph.pc \in {"relating", "built", "weighted"} =>
           /\ DOMAIN graph.adjacency = Elements
           /\ \A el \in Elements : \A e \in graph.adjacency[el] :
                  /\ e[1] \in Elements
                  /\ e[2] = "calls" => DeclaresCall(el, MethodName(e[1])) /\ IsMethod(e[1])
                  /\ e[2] = "inherits" => DeclaresParent(el, MethodName(e[1])) /\ IsMethod(e[1])
                  /\ e[2] = "called_by" => DeclaresCall(e[1], MethodName(el)) /\ IsMethod(el)
                  /\ e[2] = "inherited_by" => DeclaresParent(e[1], MethodName(el)) /\ IsMethod(el)

\* a map was built for a corpus in which a method declares a name of no
\* element, a class summary declares relations, and an edge was emitted
C15_Witness ==
    /\ graph.pc = "built"
    /\ \E el \in Elements : DeclaresCall(el, <<"z">>)
    /\ \E el \in Elements : ~IsMethod(el) /\ graph.docs[el + 1].calls # <<>>
                               /\ \A e \in graph.adjacency[el] :
                                      e[2] \in {"called_by", "inherited_by"}
    /\ \E el \in Elements : graph.adjacency[el] # {}

(***************************************************************************)
(* The top-down agent's _assign_docs_to_feature.  The similarity of an     *)
(* element to the feature name depends on the embeddings: it is an input,  *)
(* in tenths.                                                              *)
(***************************************************************************)
MaxAssignDocs == 4

MaxTopK == 3

\* min_sim_threshold: float = 0.3, in tenths
default_min_sim_threshold == 3

Scores == {2, 3, 4}

\* results.sort(key=lambda x: x[1], reverse=True): stable, equal scores keep their order
RECURSIVE SortByScoreDesc(_)
SortByScoreDesc(results) ==
    IF Len(results) = 0 THEN <<>>
    ELSE LET sorted == SortByScoreDesc(SubSeq(results, 1, Len(results) - 1))
             x == results[Len(results)]
             before == SelectSeq(sorted, LAMBDA r : r[2] >= x[2])
             after == SelectSeq(sorted, LAMBDA r : r[2] < x[2])
         IN  before \o <<x>> \o after

\* results[:top_k]
FirstResults(results, top_k) == SubSeq(results, 1, Min(top_k, Len(results)))

\* lines 319-322: the indices of the first top_k results that pass the threshold
Assigned(results, top_k, min_sim_threshold) ==
    LET kept == SelectSeq(FirstResults(results, top_k), LAMBDA r : r[2] >= min_sim_threshold)
    IN  [k \in 1..Len(kept) |-> kept[k][1]]

AssignInit ==
    /\ RunIdle
    /\ SearchIdle
    /\ GraphIdle
    /\ ReplayIdle
    /\ MoreIdle
    /\ \E n \in 0..MaxAssignDocs : \E scores \in [1..n -> Scores], top_k \in 1..MaxTopK :
           assign = [pc |-> "start", scores |-> scores, top_k |-> top_k,
                     min_sim_threshold |-> default_min_sim_threshold,
                     results |-> <<>>, assigned |-> <<>>]

\* lines 309-318: every element is scored, the results are sorted
ScoreAndSort ==
    /\ assign.pc = "start"
    /\ assign' = [assign EXCEPT
                     !.results = SortByScoreDesc([k \in 1..Len(assign.scores) |->
                                                     <<k - 1, assign.scores[k]>>]),
                     !.pc = "sorted"]

\* lines 319-323
SelectAssigned ==
    /\ assign.pc = "sorted"
    /\ assign' = [assign EXCEPT
                     !.assigned = Assigned(assign.results, assign.top_k,
                                           assign.min_sim_threshold),
                     !.pc = "assigned"]

AssignNext ==
    \/ ScoreAndSort /\ UNCHANGED <<runVars, search, graph, replay, moreVars>>
    \/ SelectAssigned /\ UNCHANGED <<runVars, search, graph, replay, moreVars>>

AssignSpec == AssignInit /\ [][AssignNext]_vars

\* C18: the list assigned to a feature name has at most top_k entries, holds
\* no element twice, holds only elements whose similarity to the name is
\* strictly greater than min_sim_threshold, and no element left out has a
\* higher similarity than an element of the list.
C18_TopKAboveThreshold ==
    assign.pc = "assigned" =>
        LET picked == Range(assign.assigned)
            score(idx) == assign.scores[idx + 1]
        IN  /\ Len(assign.assigned) <= assign.top_k
            /\ Cardinality(picked) = Len(assign.assigned)
            /\ \A idx \in picked : idx \in 0..(Len(assign.scores) - 1)
            /\ \A idx \in picked : score(idx) > assign.min_sim_threshold
            /\ \A idx \in picked : \A other \in 0..(Len(assign.scores) - 1) :
                   other \notin picked => score(other) <= score(idx)

\* dicts a and b have the same cluster names and, name by name, the same members
SameClusters(a, b) ==
    /\ Range(Keys(a)) = Range(Keys(b))
    /\ \A k \in 1..Len(a) : HasKey(b, a[k].name) =>
           Range(a[k].members) = Range(Get(b, a[k].name))

\* C20: the refinement loop exits early after a round (a round that is not
\* the last one allowed) if and only if the state the round produced has the
\* same cluster names and the same members for every name as the state the
\* round started from.
C20_EarlyExitIffUnchanged ==
    [][(pc = "splitted" /\ it + 1 < max_iterations /\ pc' # "aborted")
        => ((pc' \in {"naming", "done"}) <=> SameClusters(new_dict', pass_in))]_vars

(***************************************************************************)
(* A run on ten elements in two well-separated groups of five, elements    *)
(* 0..4 and 5..9, with min_cluster_size 3 and an oracle that declines      *)
(* every merge and every split.  Well-separated: complete linkage joins    *)
(* clusters of one group before it joins clusters of different groups, and *)
(* the centroid most similar to a cluster's centroid is one of its group.  *)
(***************************************************************************)
GroupOf(idx) == IF idx < 5 THEN "A" ELSE "B"

SeparatedCorpus == Corpora(5 + 5)

\* one agglomeration step: two clusters of one group are joined
JoinOnce(blocks) ==
    {(blocks \ {x, y}) \cup {x \cup y} :
        <<x, y>> \in {p \in blocks \X blocks :
                        p[1] # p[2] /\ \A a \in p[1], b \in p[2] : GroupOf(a) = GroupOf(b)}}

\* the partitions agglomeration reaches when it stops at k clusters
RECURSIVE JoinDownTo(_, _)
JoinDownTo(partitions, k) ==
    IF \A blocks \in partitions : Cardinality(blocks) <= k THEN partitions
    ELSE JoinDownTo(UNION {JoinOnce(blocks) : blocks \in partitions}, k)

SetMin(xs) == CHOOSE x \in xs : \A y \in xs : x <= y

\* the label array of a partition of 0..n-1, labels first used in increasing order
LabelsOf(blocks, n) ==
    [e \in 1..n |->
        LET own == CHOOSE b \in blocks : (e - 1) \in b
        IN  Cardinality({b \in blocks : SetMin(b) < SetMin(own)})]

separated_fit_predict(n, k) ==
    {LabelsOf(blocks, n) : blocks \in JoinDownTo({{{e} : e \in 0..(n - 1)}}, k)}

\* lines 531-538 for well-separated groups: the best target is a cluster of the group
NearestTargets(d, names, cname) ==
    LET all == MergeTargets(d, names, cname)
        own == {other \in all : GroupOf(Get(d, other)[1]) = GroupOf(Get(d, cname)[1])}
    IN  IF own # {} THEN own ELSE all

RECURSIVE EnforceNearestFrom(_, _, _, _)
EnforceNearestFrom(d, names, pos, min_size) ==
    IF pos > Len(names) THEN {d}
    ELSE LET cname == names[pos]
         IN  IF ~HasKey(d, cname)
             THEN EnforceNearestFrom(d, names, pos + 1, min_size)
             ELSE IF IsTooSmall(Get(d, cname), min_size)
                     /\ MergeTargets(d, names, cname) # {}
                  THEN UNION {EnforceNearestFrom(AbsorbInto(d, best_target, cname),
                                                 names, pos + 1, min_size) :
                              best_target \in NearestTargets(d, names, cname)}
                  ELSE EnforceNearestFrom(d, names, pos + 1, min_size)

separated_enforce_min_cluster_size(d, min_size) == EnforceNearestFrom(d, Keys(d), 1, min_size)

SeparatedInit ==
    /\ docs \in SeparatedCorpus
    /\ min_cluster_size = 3
    /\ pc = "start"
    /\ it = 0
    /\ cluster_dict = <<>>
    /\ new_dict = <<>>
    /\ cluster_names = <<>>
    /\ i = 0
    /\ j = 0
    /\ merged_any = FALSE
    /\ split_names = <<>>
    /\ split_pos = 0
    /\ name_pos = 0
    /\ final_dict = <<>>
    /\ feature_dict = <<>>
    /\ raised = "none"
    /\ last_op = "none"
    /\ last_resp = <<>>
    /\ n_splits = 0
    /\ pass_in = <<>>
    /\ pass_quiet = FALSE
    /\ SideIdle

SeparatedClustering ==
    InitialClusteringWith(separated_fit_predict(Len(docs), Min(MaxInitialClusters, Len(docs))))

DeclineMerge == AskMergeOn(T_No)

DeclineSplit == AskSplitOn(T_No_split_needed)

SeparatedEnforceAfterMerges ==
    EnforceAfterMergesTo(separated_enforce_min_cluster_size(cluster_dict, min_cluster_size))

SeparatedEnforceAfterSplits ==
    EnforceAfterSplitsTo(separated_enforce_min_cluster_size(new_dict, min_cluster_size))

SeparatedNext ==
    \/ SeparatedClustering /\ Aside
    \/ DeclineMerge /\ Aside
    \/ SeparatedEnforceAfterMerges /\ Aside
    \/ DeclineSplit /\ Aside
    \/ SeparatedEnforceAfterSplits /\ Aside
    \/ AskName /\ Aside

SeparatedSpec == SeparatedInit /\ [][SeparatedNext]_vars

\* C16: on ten elements in two well-separated groups of five, with
\* min_cluster_size 3 and an oracle that declines every merge and split, the
\* refinement ends with exactly 2 clusters of 5 elements each, one per group.
C16_TwoClustersOfFive ==
    (pc \in {"naming", "done"} /\ last_op = "enforce_min_cluster_size") =>
        /\ Len(cluster_dict) = 2
        /\ \A k \in 1..2 :
               /\ Len(cluster_dict[k].members) = 5
               /\ \A a, b \in Range(cluster_dict[k].members) : GroupOf(a) = GroupOf(b)
        /\ Range(cluster_dict[1].members) \cap Range(cluster_dict[2].members) = {}

\* the refinement has ended, after a round in which the normalizer absorbed clusters
C16_Witness ==
    /\ pc = "naming"
    /\ last_op = "enforce_min_cluster_size"
    /\ it = 1
    /\ Len(cluster_dict) = 2
    /\ raised = "none"

(***************************************************************************)
(* Two runs of _call in a row on one corpus, under a deterministic oracle  *)
(* (its answer is a function of the question: the names and members shown  *)
(* in the prompt) and deterministic clustering (its result is a function   *)
(* of the embeddings of the elements it is given).  replay records every   *)
(* answer and result once it is known; a later step must agree with it.    *)
(***************************************************************************)
\* memo holds no other value for key
Agrees(memo, key, value) == \A p \in memo : p[1] = key => p[2] = value

\* _llm_says_merge, lines 402-410: the prompt shows both names and both clusters
MergeQuestion(d, cA, cB) == <<cA, Get(d, cA), cB, Get(d, cB)>>

\* _llm_says_split, lines 458-462: the prompt shows the name and the cluster
SplitQuestion(d, cname) == <<cname, Get(d, cname)>>

\* _final_naming, lines 569-576: the prompt shows the cluster, not its name
NameQuestion(dindices) == <<dindices>>

\* the sub-clusters cname was replaced by, in the order of their labels
SubClustersOf(d, cname, k) == [s \in 1..k |-> Get(d, sub_name(cname, s - 1))]

ReplayClustering ==
    /\ InitialClustering
    /\ replay.initial # <<>> => replay.initial = <<cluster_dict'>>
    /\ replay' = [replay EXCEPT !.initial = <<cluster_dict'>>]

ReplayMerge ==
    /\ AskMerge
    /\ LET q == MergeQuestion(cluster_dict, cluster_names[i + 1], cluster_names[j + 1])
       IN  /\ Agrees(replay.merge_answers, q, last_resp')
           /\ replay' = [replay EXCEPT
                            !.merge_answers = @ \cup {<<q, last_resp'>>},
                            !.asked = Append(@, <<"decideMerge", q>>)]

ReplayEnforceAfterMerges ==
    /\ EnforceAfterMerges
    /\ Agrees(replay.enforce_outcomes, cluster_dict, new_dict')
    /\ replay' = [replay EXCEPT !.enforce_outcomes = @ \cup {<<cluster_dict, new_dict'>>}]

ReplaySplit ==
    /\ AskSplit
    /\ LET cname == split_names[split_pos + 1]
           q == SplitQuestion(new_dict, cname)
           split_into == llm_says_split(last_resp')
           done == SplitRequested(split_into) /\ pc' # "aborted"
           key == <<Get(new_dict, cname), IF done THEN split_into[1] ELSE 0>>
           subs == IF done THEN SubClustersOf(new_dict', cname, split_into[1]) ELSE <<>>
       IN  /\ Agrees(replay.split_answers, q, last_resp')
           /\ done => Agrees(replay.sub_outcomes, key, subs)
           /\ replay' = [replay EXCEPT
                            !.split_answers = @ \cup {<<q, last_resp'>>},
                            !.sub_outcomes = IF done THEN @ \cup {<<key, subs>>} ELSE @,
                            !.asked = Append(@, <<"decideSplit", q>>)]

ReplayEnforceAfterSplits ==
    /\ EnforceAfterSplits
    /\ Agrees(replay.enforce_outcomes, new_dict, new_dict')
    /\ replay' = [replay EXCEPT !.enforce_outcomes = @ \cup {<<new_dict, new_dict'>>}]

ReplayName ==
    /\ AskName
    /\ LET q == NameQuestion(cluster_dict[name_pos + 1].members)
       IN  /\ Agrees(replay.name_answers, q, last_resp')
           /\ replay' = [replay EXCEPT
                            !.name_answers = @ \cup {<<q, last_resp'>>},
                            !.asked = Append(@, <<"nameCluster", q>>)]

\* the first run is over: _call is run again on the same corpus
Rerun ==
    /\ replay.run = 1
    /\ pc \in {"done", "aborted"}
    /\ replay' = [replay EXCEPT
                     !.run = 2,
                     !.asked = <<>>,
                     !.first = <<[asked |-> replay.asked, feature_dict |-> feature_dict,
                                  pc |-> pc, raised |-> raised]>>]
    /\ pc' = "start"
    /\ it' = 0
    /\ cluster_dict' = <<>>
    /\ new_dict' = <<>>
    /\ cluster_names' = <<>>
    /\ i' = 0
    /\ j' = 0
    /\ merged_any' = FALSE
    /\ split_names' = <<>>
    /\ split_pos' = 0
    /\ name_pos' = 0
    /\ final_dict' = <<>>
    /\ feature_dict' = <<>>
    /\ raised' = "none"
    /\ last_op' = "none"
    /\ last_resp' = <<>>
    /\ n_splits' = 0
    /\ pass_in' = <<>>
    /\ pass_quiet' = FALSE
    /\ UNCHANGED inputVars

ReplayNext ==
    \/ ReplayClustering /\ UNCHANGED <<search, graph, assign, moreVars>>
    \/ ReplayMerge /\ UNCHANGED <<search, graph, assign, moreVars>>
    \/ ReplayEnforceAfterMerges /\ UNCHANGED <<search, graph, assign, moreVars>>
    \/ ReplaySplit /\ UNCHANGED <<search, graph, assign, moreVars>>
    \/ ReplayEnforceAfterSplits /\ UNCHANGED <<search, graph, assign, moreVars>>
    \/ ReplayName /\ UNCHANGED <<search, graph, assign, moreVars>>
    \/ Rerun /\ UNCHANGED <<search, graph, assign, moreVars>>

ReplaySpec == Init /\ [][ReplayNext]_vars

IsPrefix(s, t) == Len(s) <= Len(t) /\ SubSeq(t, 1, Len(s)) = s

\* C17: two runs on the same corpus with the same deterministic oracle issue
\* the same sequence of oracle questions and return identical FeatureMaps:
\* what the second run has asked so far is what the first run asked at that
\* point, and when the second run is over it has asked the same questions,
\* ended the same way and returned the same feature_dict.
C17_RunsAreReproducible ==
    replay.run = 2 =>
        /\ IsPrefix(replay.asked, replay.first[1].asked)
        /\ pc \in {"done", "aborted"} =>
               /\ replay.asked = replay.first[1].asked
               /\ feature_dict = replay.first[1].feature_dict
               /\ pc = replay.first[1].pc
               /\ raised = replay.first[1].raised

\* the second run has returned a FeatureMap after a merge and several questions
C17_Witness ==
    /\ replay.run = 2
    /\ pc = "done"
    /\ Len(replay.asked) >= 4
    /\ Len(feature_dict) >= 1
    /\ \E p \in replay.merge_answers : llm_says_merge(p[2])

\* the merge question about clusters a and b of d was asked and declined
Declined(d, a, b) ==
    \E p \in replay.merge_answers :
        p[1] = MergeQuestion(d, d[a].name, d[b].name) /\ ~llm_says_merge(p[2])

\* C19: when _attempt_merges returns there is no pair of surviving clusters,
\* taken with their final members, for which the oracle would answer yes:
\* every such pair was put to the oracle in that form and declined.
C19_NoMergeablePairLeft ==
    pc = "merged" =>
        \A a \in 1..Len(cluster_dict), b \in 1..Len(cluster_dict) :
            a < b => Declined(cluster_dict, a, b)

(***************************************************************************)
(* The weighted distance matrix, settled on GraphSpec.                     *)
(***************************************************************************)
\* C21: the distance matrix handed to the hierarchical clustering is
\* symmetric: once the distances are weighted, the entry for (a, b) equals
\* the entry for (b, a) for all elements a and b, for every map built.
C21_WeightedDistanceIsSymmetric ==
    graph.pc = "weighted" =>
        \A a \in Elements, b \in Elements : graph.dist_mat[a][b] = graph.dist_mat[b][a]

\* the tags adjacency[a] holds for b
TagsOf(a, b) == {e[2] : e \in {x \in graph.adjacency[a] : x[1] = b}}

\* C22: once the distances are weighted, the map holds at most one relation
\* kind for an ordered pair; an entry (a, b) with a # b and an edge is the
\* raw entry multiplied once by the weight of that kind (0.4, 0.5, 0.6, 0.7);
\* every other entry, the diagonal included, is the raw entry; and the raw
\* matrix itself is as it was handed in.
C22_OnlyEdgesAreWeighted ==
    graph.pc = "weighted" =>
        /\ graph.base_dist = base_dist_of(graph.raw, graph.self, Len(graph.docs))
        /\ \A a \in Elements, b \in Elements :
               /\ Cardinality(TagsOf(a, b)) <= 1
               /\ (a # b /\ TagsOf(a, b) # {}) =>
                      \E t \in TagsOf(a, b) :
                          /\ graph.dist_mat[a][b] =
                                 graph.base_dist[a][b] *
                                     (CASE t = "inherits" -> 4 [] t = "inherited_by" -> 5
                                        [] t = "calls" -> 6 [] t = "called_by" -> 7)
               /\ (a = b \/ TagsOf(a, b) = {}) =>
                      graph.dist_mat[a][b] = graph.base_dist[a][b] * 10

\* the distances were weighted for a map with an edge between distinct
\* elements, an element related to itself with a raw self distance above
\* zero, and a pair of distinct elements without an edge
C22_Witness ==
    /\ graph.pc = "weighted"
    /\ graph.raw > 0
    /\ graph.self > 0
    /\ \E a \in Elements, b \in Elements : a # b /\ TagsOf(a, b) # {}
    /\ \E a \in Elements : TagsOf(a, a) # {}
    /\ \E a \in Elements, b \in Elements : a # b /\ TagsOf(a, b) = {}

(***************************************************************************)
(* Top-down recursive summarization (BackwardsFeatureAgent).  A text is    *)
(* kept as its length in characters; a document as the length of           *)
(* _doc_as_text of it.  The oracle answers with a summary of any of the    *)
(* lengths in SummaryLengths.                                              *)
(***************************************************************************)
MaxSummaryDocs == 3

\* max_tokens_prompt, scaled down
MaxTokensPrompt == 6

\* the depth at which the interpreter ends a recursion with RecursionError
RecursionLimit == 3

\* the lengths of _doc_as_text(d) of the elements of a corpus
DocTextLengths == {8, 12, 28}

\* the lengths of the stripped summaries the oracle returns
SummaryLengths == {2, 6, 22}

\* _approx_token_count, line 265
approx_token_count(text) == text \div 4

RECURSIVE SumOf(_, _)
SumOf(lens, upto) == IF upto = 0 THEN 0 ELSE SumOf(lens, upto - 1) + lens[upto]

\* _join_doc_summaries, lines 235-238: "\n\n".join of the texts
join_doc_summaries(lens) ==
    IF Len(lens) = 0 THEN 0 ELSE SumOf(lens, Len(lens)) + 2 * (Len(lens) - 1)

\* _doc_as_text of Document(page_content=s): "[doc]\n" and the summary
partial_doc(s) == 6 + s

\* _split_docs_by_tokens, lines 212-222: the loop over the first upto docs;
\* a group is the sequence of the positions of its documents
RECURSIVE SplitLoop(_, _, _)
SplitLoop(lens, max_tokens, upto) ==
    IF upto = 0 THEN [groups |-> <<>>, current_group |-> <<>>, current_text_tokens |-> 0]
    ELSE LET st == SplitLoop(lens, max_tokens, upto - 1)
             doc_tokens == approx_token_count(lens[upto])
         IN  IF st.current_text_tokens + doc_tokens > max_tokens /\ st.current_group # <<>>
             THEN [groups |-> Append(st.groups, st.current_group),
                   current_group |-> <<upto>>,
                   current_text_tokens |-> doc_tokens]
             ELSE [groups |-> st.groups,
                   current_group |-> Append(st.current_group, upto),
                   current_text_tokens |-> st.current_text_tokens + doc_tokens]

\* _split_docs_by_tokens, lines 197-228
split_docs_by_tokens(lens, max_tokens) ==
    LET st == SplitLoop(lens, max_tokens, Len(lens))
    IN  IF st.current_group # <<>> THEN Append(st.groups, st.current_group) ELSE st.groups

SummaryCorpora == UNION {[1..n -> DocTextLengths] : n \in 1..MaxSummaryDocs}

SummaryInit ==
    /\ RunIdle
    /\ SearchIdle
    /\ GraphIdle
    /\ AssignIdle
    /\ ReplayIdle
    /\ TopdownIdle
    /\ WorkersIdle
    /\ \E lens \in SummaryCorpora :
           summary = [pc |-> "enter", docs |-> lens, depth |-> 1, subgroups |-> <<>>,
                      pos |-> 0, partial_summaries |-> <<>>, sent |-> <<>>,
                      result |-> <<>>]

\* _recursive_summarize_docs, lines 177-187: the test of the combined text
EnterSummarize ==
    /\ summary.pc = "enter"
    /\ LET combined_text == join_doc_summaries(summary.docs)
       IN  summary' =
               IF summary.depth > RecursionLimit
               THEN [summary EXCEPT !.pc = "recursion_error"]
               ELSE IF approx_token_count(combined_text) < MaxTokensPrompt
               THEN [summary EXCEPT !.pc = "merge_all"]
               ELSE [summary EXCEPT
                        !.pc = "groups",
                        !.subgroups = split_docs_by_tokens(summary.docs, MaxTokensPrompt \div 2),
                        !.pos = 0,
                        !.partial_summaries = <<>>]

\* line 182: return self._llm_merge(combined_text)
MergeAll ==
    /\ summary.pc = "merge_all"
    /\ \E s \in SummaryLengths :
           summary' = [summary EXCEPT
                          !.pc = "returned",
                          !.sent = Append(@, join_doc_summaries(summary.docs)),
                          !.result = <<s>>]

\* the texts of the documents of a group
GroupTexts(lens, group) == [k \in 1..Len(group) |-> lens[group[k]]]

\* lines 188-192: one round of the loop over the subgroups
MergeGroup ==
    /\ summary.pc = "groups"
    /\ summary.pos < Len(summary.subgroups)
    /\ \E s \in SummaryLengths :
           LET text_block ==
                   join_doc_summaries(GroupTexts(summary.docs, summary.subgroups[summary.pos + 1]))
           IN  summary' = [summary EXCEPT
                              !.pos = @ + 1,
                              !.sent = Append(@, text_block),
                              !.partial_summaries = Append(@, s)]

\* lines 194-195: the recursion on the partial summaries
RecurseOnPartials ==
    /\ summary.pc = "groups"
    /\ summary.pos = Len(summary.subgroups)
    /\ summary' = [summary EXCEPT
                      !.pc = "enter",
                      !.docs = [k \in 1..Len(summary.partial_summaries) |->
                                   partial_doc(summary.partial_summaries[k])],
                      !.depth = @ + 1,
                      !.sent = <<>>]

SummaryNext ==
    \/ EnterSummarize /\ UNCHANGED <<runVars, search, graph, assign, replay, topdown, workers>>
    \/ MergeAll /\ UNCHANGED <<runVars, search, graph, assign, replay, topdown, workers>>
    \/ MergeGroup /\ UNCHANGED <<runVars, search, graph, assign, replay, topdown, workers>>
    \/ RecurseOnPartials /\ UNCHANGED <<runVars, search, graph, assign, replay, topdown, workers>>

\* the interpreter goes on with a call that can take a step
SummarySpec == SummaryInit /\ [][SummaryNext]_vars /\ WF_vars(SummaryNext)

\* C23: for every non-empty list of summaries and every oracle, whatever the
\* lengths of the summaries it returns, _recursive_summarize_docs eventually
\* returns a single summary, also when one element or one partial summary
\* alone is at or over the token budget.
C23_SummarizationReturns == <>(summary.pc = "returned")

RECURSIVE GroupsInARow(_, _)
GroupsInARow(groups, upto) ==
    IF upto = 0 THEN <<>> ELSE GroupsInARow(groups, upto - 1) \o groups[upto]

\* C24: every text passed to the summarize oracle has an approximate token
\* count below max_tokens_prompt, for every corpus; and the groups of
\* _split_docs_by_tokens are non-empty and, put one after the other, are the
\* input documents in their order, each exactly once.
C24_PromptsWithinBudget ==
    /\ \A k \in 1..Len(summary.sent) : approx_token_count(summary.sent[k]) < MaxTokensPrompt
    /\ summary.pc = "groups" =>
           /\ \A g \in 1..Len(summary.subgroups) : summary.subgroups[g] # <<>>
           /\ GroupsInARow(summary.subgroups, Len(summary.subgroups)) =
                  [k \in 1..Len(summary.docs) |-> k]

(***************************************************************************)
(* Top-down strategy after the assignment: _merge_small_or_duplicate_      *)
(* features on the initial map, a dict from feature name to the list of    *)
(* assigned element indices.  Lists of different features can overlap and  *)
(* a list can be empty (no element above the threshold).                   *)
(***************************************************************************)
MaxTopdownDocs == 3

MaxFeatures == 3

MaxAssigned == 2

\* the lists _assign_docs_to_feature can return for a corpus of n elements,
\* here in ascending order of index
AssignedLists(n) ==
    {<<>>} \cup {<<a>> : a \in 0..(n - 1)}
           \cup {l \in {<<a, b>> : a \in 0..(n - 1), b \in 0..(n - 1)} : l[1] < l[2]}

\* _call, lines 460-463: the initial map of k features
InitialMaps(n, k) ==
    {[f \in 1..k |-> [name |-> <<f>>, members |-> lists[f]]] :
         lists \in [1..k -> {l \in AssignedLists(n) : Len(l) <= MaxAssigned}]}

TopdownInit ==
    /\ RunIdle
    /\ SearchIdle
    /\ GraphIdle
    /\ AssignIdle
    /\ ReplayIdle
    /\ SummaryIdle
    /\ WorkersIdle
    /\ \E n \in 1..MaxTopdownDocs, k \in 0..MaxFeatures, size \in 1..MaxMinClusterSize :
           \E m \in InitialMaps(n, k) :
               topdown = [pc |-> "start", n |-> n, min_cluster_size |-> size,
                          initial_map |-> m, feature_map |-> m, feature_names |-> <<>>,
                          i |-> 0, j |-> 0, merged_any |-> FALSE,
                          merges |-> 0, all_yes |-> TRUE,
                          centroids |-> {}, pos |-> 0, feature_dict |-> <<>>]

\* _attempt_llm_feature_merges, lines 355-359
StartFeatureMerges ==
    /\ topdown.pc = "start"
    /\ LET names == Keys(topdown.feature_map)
           at == IF Len(names) > 0 THEN MergeScan(0, 1, FALSE, Len(names))
                 ELSE [i |-> 0, j |-> 0, merged_any |-> FALSE, done |-> TRUE]
       IN  topdown' = [topdown EXCEPT
                          !.feature_names = names,
                          !.i = at.i, !.j = at.j, !.merged_any = at.merged_any,
                          !.pc = IF at.done THEN "merged" ELSE "merge"]

\* _attempt_llm_feature_merges, lines 360-380: one round of the inner loop
AskFeatureMerge ==
    /\ topdown.pc = "merge"
    /\ LET fA == topdown.feature_names[topdown.i + 1]
           fB == topdown.feature_names[topdown.j + 1]
           both == HasKey(topdown.feature_map, fA) /\ HasKey(topdown.feature_map, fB)
       IN  \E answer \in {TRUE, FALSE} :
               LET yes == both /\ answer
                   names == IF yes THEN RemoveAt(topdown.feature_names, topdown.j + 1)
                            ELSE topdown.feature_names
                   at == MergeScan(topdown.i, IF yes THEN topdown.j ELSE topdown.j + 1,
                                   topdown.merged_any \/ yes, Len(names))
               IN  topdown' = [topdown EXCEPT
                                  !.feature_map = IF yes THEN MergeClusters(@, fA, fB) ELSE @,
                                  !.feature_names = names,
                                  !.i = at.i, !.j = at.j, !.merged_any = at.merged_any,
                                  !.merges = IF yes THEN @ + 1 ELSE @,
                                  !.all_yes = @ /\ (both => answer),
                                  !.pc = IF at.done THEN "merged" ELSE "merge"]

\* _merge_tiny_clusters, lines 386-397: the copy, the centroids (None for an
\* empty list) and the names
StartTinyMerges ==
    /\ topdown.pc = "merged"
    /\ topdown' = [topdown EXCEPT
                      !.centroids = {topdown.feature_map[k].name :
                                         k \in {x \in 1..Len(topdown.feature_map) :
                                                    topdown.feature_map[x].members # <<>>}},
                      !.feature_names = Keys(topdown.feature_map),
                      !.pos = 0,
                      !.pc = "tiny"]

\* _merge_tiny_clusters, lines 399-430: one round of the loop over the names;
\* the most similar centroid is any of those compared
MergeTinyCluster ==
    /\ topdown.pc = "tiny"
    /\ topdown.pos < Len(topdown.feature_names)
    /\ LET fname == topdown.feature_names[topdown.pos + 1]
           updated_map == topdown.feature_map
           cluster_size == IF HasKey(updated_map, fname) THEN Len(Get(updated_map, fname)) ELSE 0
           others == {other \in Range(topdown.feature_names) :
                          /\ other # fname
                          /\ HasKey(updated_map, other)
                          /\ other \in topdown.centroids}
       IN  IF HasKey(updated_map, fname)
              /\ cluster_size < topdown.min_cluster_size /\ cluster_size > 0
           THEN IF fname \notin topdown.centroids
                THEN topdown' = [topdown EXCEPT !.feature_map = Pop(@, fname), !.pos = @ + 1]
                ELSE IF others = {}
                THEN topdown' = [topdown EXCEPT !.pos = @ + 1]
                ELSE \E best_target \in others :
                         topdown' = [topdown EXCEPT
                                        !.feature_map = AbsorbInto(@, best_target, fname),
                                        !.pos = @ + 1]
           ELSE topdown' = [topdown EXCEPT !.pos = @ + 1]

\* _call, lines 469-484: the map is returned (an element's label stands for
\* its index)
ReturnFeatureDict ==
    /\ topdown.pc = "tiny"
    /\ topdown.pos = Len(topdown.feature_names)
    /\ topdown' = [topdown EXCEPT !.feature_dict = topdown.feature_map, !.pc = "returned"]

TopdownNext ==
    \/ StartFeatureMerges /\ UNCHANGED <<runVars, search, graph, assign, replay, summary, workers>>
    \/ AskFeatureMerge /\ UNCHANGED <<runVars, search, graph, assign, replay, summary, workers>>
    \/ StartTinyMerges /\ UNCHANGED <<runVars, search, graph, assign, replay, summary, workers>>
    \/ MergeTinyCluster /\ UNCHANGED <<runVars, search, graph, assign, replay, summary, workers>>
    \/ ReturnFeatureDict /\ UNCHANGED <<runVars, search, graph, assign, replay, summary, workers>>

TopdownSpec == TopdownInit /\ [][TopdownNext]_vars

\* C25: in the returned state of the size normalizer no cluster has zero
\* members, and a cluster below min_cluster_size that is the only cluster
\* (no merge target) has been dropped.
C25_NoTargetMeansDropped ==
    topdown.pc = "returned" =>
        /\ \A k \in 1..Len(topdown.feature_dict) : topdown.feature_dict[k].members # <<>>
        /\ Len(topdown.feature_dict) = 1 =>
               ~IsTooSmall(topdown.feature_dict[1].members, topdown.min_cluster_size)

\* the elements of the clusters of d
ElementsOf(d) == UNION {Range(d[k].members) : k \in 1..Len(d)}

NoDuplicates(s) == \A a, b \in 1..Len(s) : a # b => s[a] # s[b]

\* C26: under any oracle the merge pass makes at most n-1 merges on a state
\* of n clusters and comes to its end; under the oracle that answers yes to
\* every question it returns exactly one cluster, under the name of the
\* first cluster, that holds every element of the state exactly once.
C26_MergePassEndsInOneCluster ==
    /\ topdown.pc # "idle" /\ Len(topdown.initial_map) > 0 =>
           topdown.merges <= Len(topdown.initial_map) - 1
    /\ (topdown.pc = "merged" /\ topdown.all_yes /\ Len(topdown.initial_map) > 0) =>
           /\ Len(topdown.feature_map) = 1
           /\ topdown.feature_map[1].name = topdown.initial_map[1].name
           /\ Range(topdown.feature_map[1].members) = ElementsOf(topdown.initial_map)
           /\ NoDuplicates(topdown.feature_map[1].members)

\* C29: in the returned feature_dict of the top-down strategy no element
\* appears more than once in the member list of one feature, also after
\* feature merges and tiny-cluster merges have concatenated lists.
C29_NoElementTwiceInAFeature ==
    topdown.pc = "returned" =>
        \A k \in 1..Len(topdown.feature_dict) : NoDuplicates(topdown.feature_dict[k].members)

(***************************************************************************)
(* The clusters of the bottom-up state, settled on Spec.                   *)
(***************************************************************************)
\* C28: in the bottom-up strategy no cluster of the clustering state is ever
\* empty: from the initial clustering on and after any merge, normalize and
\* split pass, under any oracle answers, every cluster of cluster_dict and
\* of new_dict has at least one member.
C28_NoClusterIsEmpty ==
    /\ \A k \in 1..Len(cluster_dict) : cluster_dict[k].members # <<>>
    /\ \A k \in 1..Len(new_dict) : new_dict[k].members # <<>>

\* a second round has run on a state that was merged, normalized and split
C28_Witness ==
    /\ it >= 1
    /\ n_splits >= 1
    /\ min_cluster_size >= 2
    /\ pc = "merged"
    /\ Len(cluster_dict) >= 1

(***************************************************************************)
(* Runs in which the oracle asks for a split more than once, so that a     *)
(* split meets the sub-clusters of an earlier one.  The oracle answers     *)
(* every question; its transport failures are not taken.                   *)
(***************************************************************************)
MaxResplits == 2

AskResplit == \E content \in SplitResponses : AskSplitOnUpTo(content, MaxResplits)

ResplitNext ==
    \/ InitialClustering /\ Aside
    \/ AskMerge /\ Aside
    \/ EnforceAfterMerges /\ Aside
    \/ AskResplit /\ Aside
    \/ EnforceAfterSplits /\ Aside
    \/ AskName /\ Aside

ResplitSpec == Init /\ [][ResplitNext]_vars

\* the step splits the cluster at split_pos
SplitsNow ==
    /\ pc = "split"
    /\ last_op' = "attempt_splits"
    /\ pc' # "aborted"
    /\ SplitRequested(llm_says_split(last_resp'))

\* C27: across the refinement rounds, the names '<name>_sub<k>' a split
\* gives to the new sub-clusters are not names of clusters in the state at
\* that moment, so the split leaves the member list of every other cluster
\* as it was.
C27_SubNamesAreFresh ==
    [][SplitsNow =>
          LET cname == split_names[split_pos + 1]
              split_into == llm_says_split(last_resp')[1]
          IN  /\ \A sub_id \in 0..(split_into - 1) :
                     ~HasKey(new_dict, sub_name(cname, sub_id))
              /\ \A k \in 1..Len(new_dict) :
                     new_dict[k].name # cname =>
                         /\ HasKey(new_dict', new_dict[k].name)
                         /\ Get(new_dict', new_dict[k].name) = new_dict[k].members]_vars

\* a sub-cluster of an earlier split has been split again, in a later round
C27_Witness ==
    /\ n_splits >= 2
    /\ it >= 1
    /\ last_op = "attempt_splits"
    /\ \E k \in 1..Len(new_dict) : Len(new_dict[k].name) >= 3

(***************************************************************************)
(* Compass._summarize_methods: one task per (file, method) pair, run by    *)
(* the threads of a pool.  A code is a number and the summary the oracle   *)
(* generates from a code is kept as that code.                             *)
(***************************************************************************)
MaxTasks == 3

MethodNames == {"m", "n"}

MethodCodes == {1, 2}

\* lines 124-128: the tasks submitted, one per file here
TaskLists == UNION {[1..n -> MethodNames \X MethodCodes] : n \in 1..MaxTasks}

WorkersInit ==
    /\ RunIdle
    /\ SearchIdle
    /\ GraphIdle
    /\ AssignIdle
    /\ ReplayIdle
    /\ SummaryIdle
    /\ TopdownIdle
    /\ \E tasks \in TaskLists :
           workers = [pc |-> "running", tasks |-> tasks,
                      at |-> [w \in 1..Len(tasks) |-> "submitted"],
                      summary |-> [w \in 1..Len(tasks) |-> 0],
                      method_summaries |-> <<>>]

\* the entry of method_summaries under name, or None
EntryOf(ms, name) ==
    IF \E k \in 1..Len(ms) : ms[k].name = name
    THEN <<ms[CHOOSE k \in 1..Len(ms) : ms[k].name = name]>>
    ELSE None

\* self.method_summaries[name] = entry
SetEntry(ms, name, entry) ==
    IF \E k \in 1..Len(ms) : ms[k].name = name
    THEN [k \in 1..Len(ms) |-> IF ms[k].name = name THEN entry ELSE ms[k]]
    ELSE Append(ms, entry)

\* lines 104-108, under the lock: return if a summary is stored, else store the code
CheckAndStoreCode(w) ==
    /\ workers.pc = "running"
    /\ workers.at[w] = "submitted"
    /\ LET method_name == workers.tasks[w][1]
           method_code == workers.tasks[w][2]
           entry == EntryOf(workers.method_summaries, method_name)
       IN  IF entry # None /\ entry[1].summary # None
           THEN workers' = [workers EXCEPT !.at[w] = "done"]
           ELSE workers' = [workers EXCEPT
                               !.at[w] = "invoking",
                               !.method_summaries =
                                   SetEntry(@, method_name,
                                            [name |-> method_name, code |-> method_code,
                                             summary |-> None])]

\* line 119, outside the lock: the summary of the task's own code
InvokeModel(w) ==
    /\ workers.pc = "running"
    /\ workers.at[w] = "invoking"
    /\ workers' = [workers EXCEPT !.at[w] = "storing", !.summary[w] = workers.tasks[w][2]]

\* line 119: the oracle call raises; the future holds the exception (lines 130-134)
InvokeRaises(w) ==
    /\ workers.pc = "running"
    /\ workers.at[w] = "invoking"
    /\ workers' = [workers EXCEPT !.at[w] = "done"]

\* lines 121-122, under the lock
StoreSummary(w) ==
    /\ workers.pc = "running"
    /\ workers.at[w] = "storing"
    /\ LET method_name == workers.tasks[w][1]
           entry == EntryOf(workers.method_summaries, method_name)[1]
       IN  workers' = [workers EXCEPT
                          !.at[w] = "done",
                          !.method_summaries =
                              SetEntry(@, method_name,
                                       [entry EXCEPT !.summary = <<workers.summary[w]>>])]

\* lines 130-136: every future is completed
AllCompleted ==
    /\ workers.pc = "running"
    /\ \A w \in 1..Len(workers.tasks) : workers.at[w] = "done"
    /\ workers' = [workers EXCEPT !.pc = "completed"]

CheckStep == \E w \in 1..Len(workers.tasks) : CheckAndStoreCode(w)

InvokeStep == \E w \in 1..Len(workers.tasks) : InvokeModel(w)

InvokeRaisesStep == \E w \in 1..Len(workers.tasks) : InvokeRaises(w)

StoreStep == \E w \in 1..Len(workers.tasks) : StoreSummary(w)

WorkersNext ==
    \/ CheckStep /\ UNCHANGED <<runVars, search, graph, assign, replay, summary, topdown>>
    \/ InvokeStep /\ UNCHANGED <<runVars, search, graph, assign, replay, summary, topdown>>
    \/ InvokeRaisesStep /\ UNCHANGED <<runVars, search, graph, assign, replay, summary, topdown>>
    \/ StoreStep /\ UNCHANGED <<runVars, search, graph, assign, replay, summary, topdown>>
    \/ AllCompleted /\ UNCHANGED <<runVars, search, graph, assign, replay, summary, topdown>>

WorkersSpec == WorkersInit /\ [][WorkersNext]_vars

\* C30: under every interleaving of the worker threads, also when a method
\* name is submitted more than once with different code, every entry of
\* method_summaries that holds a summary when _summarize_methods is over
\* holds the code that summary was generated from.
C30_SummaryMatchesCode ==
    workers.pc = "completed" =>
        \A k \in 1..Len(workers.method_summaries) :
            LET entry == workers.method_summaries[k]
            IN  entry.summary # None => entry.summary[1] = entry.code
====
